---- MODULE Spec2Model ----
(***************************************************************************)
(* Model of the audio segment editor of components/VoiceAnalyzer.tsx       *)
(* (src/unnamed/part_001): decoded buffer, trim window, playback engine    *)
(* (Spec, SpecTrim, SpecEngine, SpecEngineLive), the WAV encoder (SpecWav) *)
(* and the batch analysis of components/DatasetAnalyzer.tsx with           *)
(* services/geminiService.ts (SpecDataset, SpecDatasetLive).               *)
(*                                                                         *)
(* Time is counted in ticks of 0.1 s (the step of the trim sliders), so    *)
(* the minimum segment of 0.5 s is 5 ticks.  One action is one React event *)
(* handler together with the effects its re-render runs.                   *)
(***************************************************************************)
EXTENDS Integers, Sequences, FiniteSets, TLC

\* ---------------------------------------------------------------- bounds
NumUrls == 3          \* distinct audio sources (object URLs) the user can select
ShortDuration == 2    \* duration of a decoded clip shorter than the minimum segment
LongDuration == 6     \* duration of a decoded clip longer than the minimum segment
MaxTime == 5          \* the audio clock is observed up to this tick
MaxSources == 2       \* source nodes that are playing or have an ended event queued
MaxInFlight == 1      \* decodes in flight at the same time
MantissaBits == 5     \* significant bits of a Number (53 in the engine)
MaxFrames == 3        \* frames of a buffer handed to the encoder
MaxChannels == 2      \* channels of a buffer handed to the encoder
MaxWavTick == 4       \* largest window bound handed to the encoder, in 0.1 s
NumFiles == 3         \* distinct files the user can upload to the dataset analyzer
SmallFileRows == 3    \* rows of a file that fits in one chunk
LargeFileRows == 51   \* rows of a file that is longer than the row limit
FailingRows == 1      \* the gateway calls of this many rows (the first ones) may fail
MaxReads == 1         \* files being read at the same time

\* ------------------------------------------------------ program constants
MinSegment == 5       \* the 0.5 of the slider handlers, in ticks
BatchSize == 5        \* batchSize of runAnalysis
RowLimit == 50        \* limit of handleFileUpload

Null == 0
Urls == 1..NumUrls
NoBuffer == [url |-> Null, duration |-> 0]
NoRuns == [all |-> 0, sinceRestart |-> 0]

Min(a, b) == IF a < b THEN a ELSE b
Max(a, b) == IF a > b THEN a ELSE b

\* decodeAudioData: deterministic per source; 0 stands for a rejected decode
decodeAudioData(u) ==
  CASE u % 3 = 1 -> ShortDuration
    [] u % 3 = 2 -> LongDuration
    [] OTHER -> 0

VARIABLES
  audioUrl,          \* useState audioUrl (Null or a url)
  audioBuffer,       \* useState audioBuffer (NoBuffer or a decoded buffer)
  trimRange,         \* useState trimRange {start, end}
  playbackState,     \* useState 'playing' | 'paused' | 'stopped'
  playbackOffset,    \* useState playbackOffset
  loading,           \* useState loading
  previewSourceRef,  \* useRef: Null or the slot of a source node
  startTimeRef,      \* useRef: context time when playback started
  currentTime,       \* audioContextRef.current.currentTime
  sources,           \* the AudioBufferSourceNodes that play or await their ended event
  decodes,           \* loadAudio calls in flight, per url
  wavBuffer,         \* encoder input: the AudioBuffer argument
  wavWindow,         \* encoder input: the start and end arguments
  wavBlob,           \* the Blob the encoder returned last
  wavPrev,           \* the Blob it returned the time before
  analysis,          \* handleAnalyze: where the call in progress stands
  data,              \* DatasetAnalyzer useState data: the rows
  fileName,          \* DatasetAnalyzer useState fileName
  analyzing,         \* DatasetAnalyzer useState analyzing
  progress,          \* DatasetAnalyzer useState progress
  filter,            \* DatasetAnalyzer useState filter
  readers,             \* FileReaders at work, per file
  run,               \* the runAnalysis call in progress: its locals and position
  replaced,          \* history: the data was cleared or replaced during the run in progress
  op,                \* history: the operation that produced this state
  requested,         \* history: the value asked of the slider by setStart / setEnd
  edited,            \* history: a trim edit forced a stop and play() has not run since
  elapsedRuns        \* history: clock time spent in the runs ended by pause()

vars == <<audioUrl, audioBuffer, trimRange, playbackState, playbackOffset,
          loading, previewSourceRef, startTimeRef, currentTime, sources,
          decodes, wavBuffer, wavWindow, wavBlob, wavPrev, analysis, data,
          fileName, analyzing, progress, filter, readers, run, replaced, op,
          requested, edited, elapsedRuns>>

wavVars == <<wavBuffer, wavWindow, wavBlob, wavPrev>>

datasetVars == <<data, fileName, analyzing, progress, filter, readers, run, replaced>>

\* all that belongs to the voice analyzer
voiceVars == <<audioUrl, audioBuffer, trimRange, playbackState, playbackOffset,
               loading, previewSourceRef, startTimeRef, currentTime, sources,
               decodes, wavVars, analysis, requested, edited, elapsedRuns>>

\* ------------------------------------------------------------ WAV encoder
\* lines 8-67.  A Number is a binary floating-point value, kept as the
\* fraction n/d in lowest terms (d a power of two); every arithmetic result
\* is rounded to MantissaBits significant bits, ties to even.  NaN has d = 0.
RECURSIVE Pow2(_)
Pow2(k) == IF k = 0 THEN 1 ELSE 2 * Pow2(k - 1)

Zero == [n |-> 0, d |-> 1]
NaN == [n |-> 0, d |-> 0]

\* the integer nearest to n/d, ties to even (n >= 0, d > 0)
RoundHalfEven(n, d) ==
  LET q == n \div d
      r == n % d
  IN IF 2 * r < d THEN q
     ELSE IF 2 * r > d THEN q + 1
     ELSE q + (q % 2)

RECURSIVE Lowest(_, _)
Lowest(n, d) ==
  IF d > 1 /\ n % 2 = 0 THEN Lowest(n \div 2, d \div 2) ELSE [n |-> n, d |-> d]

\* n/d > 0 rounded to MantissaBits significant bits
RECURSIVE RoundPos(_, _)
RoundPos(n, d) ==
  IF n >= Pow2(MantissaBits) * d
    THEN LET r == RoundPos(n, 2 * d) IN [n |-> 2 * r.n, d |-> r.d]
  ELSE IF n < Pow2(MantissaBits - 1) * d
    THEN LET r == RoundPos(2 * n, d) IN [n |-> r.n, d |-> 2 * r.d]
  ELSE [n |-> RoundHalfEven(n, d), d |-> 1]

\* the Number nearest to the fraction n/d (d > 0)
Number(n, d) ==
  IF n = 0 THEN Zero
  ELSE IF n > 0 THEN LET r == RoundPos(n, d) IN Lowest(r.n, r.d)
  ELSE LET r == RoundPos(-n, d) IN Lowest(-r.n, r.d)

\* x * k for a Number x and an integer k that is a Number itself
Times(x, k) == Number(x.n * k, x.d)

\* Math.floor
Floor(x) == x.n \div x.d

\* sample rates of the buffers handed to the encoder; 0 is a malformed buffer
SampleRates == {0, 8, 25}

\* sample values a decoder can deliver, values outside [-1, 1] included
SampleTable ==
  << [n |-> 0, d |-> 1], [n |-> 1, d |-> 2], [n |-> 1, d |-> 1], [n |-> 3, d |-> 2],
     [n |-> -1, d |-> 2], [n |-> -1, d |-> 1], [n |-> -3, d |-> 2],
     [n |-> -3, d |-> 131072] >>

NoWavBuffer == [sampleRate |-> 0, length |-> 0, numberOfChannels |-> 0, signal |-> 0]

\* the AudioBuffers handed to the encoder; signal selects the sample data
WavBuffers ==
  [sampleRate : SampleRates, length : 1..MaxFrames,
   numberOfChannels : 0..MaxChannels, signal : 0..(Len(SampleTable) - 1)]

\* AudioBuffer.duration = length / sampleRate
duration(buffer) == Number(buffer.length, buffer.sampleRate)

\* window bounds handed to the encoder: slider values (multiples of 0.1,
\* also the negative ones a short buffer leads to) and the buffer's duration
WavTimes(buffer) ==
  {Number(k, 10) : k \in (ShortDuration - MinSegment)..MaxWavTick}
    \cup (IF buffer.sampleRate > 0 THEN {duration(buffer)} ELSE {})

\* line 51 and the index expression of line 58: channels[c][i]; an index
\* outside the Float32Array reads undefined, which Math.min turns into NaN
getChannelData(buffer, c, i) ==
  IF i \in 0..(buffer.length - 1)
    THEN SampleTable[((buffer.signal + i + buffer.length * c) % Len(SampleTable)) + 1]
    ELSE NaN

\* Math.max(-1, Math.min(1, x)), line 58
Clamp(x) ==
  IF x.d = 0 THEN NaN
  ELSE IF x.n > x.d THEN [n |-> 1, d |-> 1]
  ELSE IF x.n < -x.d THEN [n |-> -1, d |-> 1]
  ELSE x

\* n/d | 0: the fraction cut towards zero (both products of line 59 are exact:
\* a 24-bit sample times a 16-bit factor)
Trunc(n, d) == IF n >= 0 THEN n \div d ELSE -((-n) \div d)

\* DataView.setInt16 keeps the low 16 bits
Int16(v) == ((v + 32768) % 65536) - 32768

\* a conversion without the clamp of line 58
ScaleSample_NoClamp(x) ==
  IF x.d = 0 THEN 0
  ELSE Trunc(IF x.n < 0 THEN x.n * 32768 ELSE x.n * 32767, x.d)

\* lines 58-59
ScaleSample(x) ==
  LET sample == Clamp(x) IN
  IF sample.d = 0 THEN 0
  ELSE Trunc(IF sample.n < 0 THEN sample.n * 32768 ELSE sample.n * 32767, sample.d)

\* a first frame that follows the playback position
startSample_FromOffset(buffer, start) ==
  Floor(Times(start, buffer.sampleRate)) + playbackOffset

\* line 10
startSample(buffer, start) == Floor(Times(start, buffer.sampleRate))

\* line 11
endSample(buffer, end) == Floor(Times(end, buffer.sampleRate))

\* line 13
actualEndSample(buffer, end) == Min(endSample(buffer, end), buffer.length)

\* line 14
frameCount(buffer, start, end) == actualEndSample(buffer, end) - startSample(buffer, start)

\* an encoder that never returns early
IsEmptySegment_Never(count) == FALSE

\* the test of line 16
IsEmptySegment(count) == count <= 0

NotEncoded == [error |-> FALSE, type |-> "", size |-> -1, header |-> << >>,
               reads |-> << >>, data |-> << >>]

\* line 16: new Blob([], {type: 'audio/wav'})
EmptyBlob == [error |-> FALSE, type |-> "audio/wav", size |-> 0, header |-> << >>,
              reads |-> << >>, data |-> << >>]

\* lines 54-64: the (frame, channel) pairs in the order the loop reads them
Interleave(first, last, numChannels) ==
  [k \in 1..((last - first) * numChannels) |->
     [frame |-> first + ((k - 1) \div numChannels), channel |-> (k - 1) % numChannels]]

\* lines 8-67.  The Blob is described by its type, its size in bytes, the
\* values of the header fields that vary (RIFF size, channels, sample rate,
\* byte rate, block align, data size), the reads of the loop and the 16-bit
\* values written for them.  No statement of the function throws: error is
\* FALSE in every result.
audioBufferToWav(buffer, start, end) ==
  LET sampleRate == buffer.sampleRate
      first == startSample(buffer, start)
      last == actualEndSample(buffer, end)
      count == frameCount(buffer, start, end)
      numChannels == buffer.numberOfChannels
      length == count * numChannels * 2 + 44
      reads == Interleave(first, last, numChannels)
  IN IF IsEmptySegment(count) THEN EmptyBlob
     ELSE [error |-> FALSE,
           type |-> "audio/wav",
           size |-> length,
           header |-> << length - 8, numChannels, sampleRate,
                         sampleRate * 2 * numChannels, numChannels * 2, length - 40 - 4 >>,
           reads |-> reads,
           data |-> [k \in 1..Len(reads) |->
                       Int16(ScaleSample(getChannelData(buffer, reads[k].channel,
                                                        reads[k].frame)))]]

\* ---------------------------------------------------------------- helpers
Slots == 1..MaxSources

\* a slot without a node, or with a node that can no longer be heard of: it
\* is silent and either its ended event has been dispatched or no handler is
\* attached to receive it (no code attaches a handler to a started node)
Idle == [active |-> FALSE, pending |-> FALSE, onended |-> FALSE,
         offset |-> 0, dur |-> 0, remaining |-> 0]

\* node.onended = null
ClearOnended(s) ==
  IF s.active THEN [s EXCEPT !.onended = FALSE] ELSE Idle

ActiveSources == {i \in Slots : sources[i].active}

InFlight == LET S[n \in 0..NumUrls] == IF n = 0 THEN 0 ELSE S[n - 1] + decodes[n]
            IN S[NumUrls]

\* AudioBufferSourceNode.stop(): an active node falls silent and its ended
\* event is queued; on a node that already ended nothing happens
SourceStop(s) ==
  IF ~s.active THEN s
  ELSE IF s.onended
    THEN [s EXCEPT !.active = FALSE, !.pending = TRUE,
                   !.offset = 0, !.dur = 0, !.remaining = 0]
  ELSE Idle

\* stopPlayback that forgets the node without stopping it
stopPlayback_NoStop(srcs, ref) ==
  IF ref # Null
    THEN [sources |-> [srcs EXCEPT ![ref] = ClearOnended(@)], ref |-> Null]
    ELSE [sources |-> srcs, ref |-> ref]

\* stopPlayback that leaves the onended handler attached
stopPlayback_KeepHandler(srcs, ref) ==
  IF ref # Null
    THEN [sources |-> [srcs EXCEPT ![ref] = SourceStop(@)], ref |-> Null]
    ELSE [sources |-> srcs, ref |-> ref]

\* lines 211-222: result of stopPlayback on (sources, previewSourceRef)
stopPlayback(srcs, ref) ==
  IF ref # Null
    THEN [sources |-> [srcs EXCEPT ![ref] = SourceStop(ClearOnended(@))],
          ref |-> Null]
    ELSE [sources |-> srcs, ref |-> ref]

\* the editor controls (sliders, play, pause, stop) are rendered (lines 350, 381)
ControlsVisible == audioUrl # Null /\ audioBuffer # NoBuffer

\* --------------------------------------------------------- dataset analyzer
\* components/DatasetAnalyzer.tsx: a file of text rows is uploaded and the
\* rows are sent to the gateway in chunks by the asynchronous runAnalysis.
\* Rows are numbered from 0 as in the code; row idx of a dataset d is d[idx + 1].

Files == 1..NumFiles

\* the non-blank lines of file f (line 39): a small file, a file longer than
\* the row limit, or a file without text
FileRows(f) ==
  CASE f % 3 = 1 -> SmallFileRows
    [] f % 3 = 2 -> LargeFileRows
    [] OTHER -> 0

\* the text of line k of file f (line 47)
Text(f, k) == 100 * f + k

\* filter is null: all rows are shown
NoFilter == ""

\* row.result is undefined
NoResult == [sentiment |-> "", score |-> 0, transcript |-> 0]

\* lines 42-48: at most RowLimit rows are kept
ParseFile(f) ==
  [k \in 1..Min(FileRows(f), RowLimit) |->
     [id |-> k - 1, text |-> Text(f, k), result |-> NoResult]]

\* geminiService.analyzeText (lines 40-53) where the call succeeds: the
\* verdict of the provider for this text
analyzeText(text) ==
  [sentiment |-> <<"Positive", "Negative", "Neutral">>[(text % 3) + 1],
   score |-> 1, transcript |-> text]

\* geminiService.ts lines 97-106: the result put in place of a failed call
Fallback(text) == [sentiment |-> "Neutral", score |-> 0, transcript |-> text]

\* the gateway call made for row idx may fail
MayFail(idx) == idx < FailingRows

\* geminiService.analyzeBatch (lines 90-111): one call per text, the results
\* in the order of the texts; failed is the set of positions whose call failed
analyzeBatch(texts, failed) ==
  [k \in 1..Len(texts) |->
     IF k \in failed THEN Fallback(texts[k]) ELSE analyzeText(texts[k])]

\* the increasing sequence of the members of a set of row numbers
Ascending(S) ==
  [k \in 1..Cardinality(S) |->
     CHOOSE x \in S : Cardinality({y \in S : y < x}) = k - 1]

\* a chunk that takes every row of the slice, analyzed or not
PendingIndices_All(updatedData, i) ==
  Ascending(i..(Min(i + BatchSize, Len(updatedData)) - 1))

\* lines 72-74: the rows of the slice [i, i + batchSize) without a result
PendingIndices(updatedData, i) ==
  Ascending({idx \in i..(Min(i + BatchSize, Len(updatedData)) - 1) :
               updatedData[idx + 1].result = NoResult})

\* lines 71 and 76: the loop passes over the chunks with nothing pending;
\* the first chunk from i on that has a pending row, or the end of the loop
NextChunk(updatedData, i) ==
  LET chunks == {i + BatchSize * n : n \in 0..(Len(updatedData) \div BatchSize + 1)}
      Stops(j) == j >= Len(updatedData) \/ PendingIndices(updatedData, j) # << >>
  IN CHOOSE j \in chunks : Stops(j) /\ \A y \in chunks : y < j => ~Stops(y)

\* Math.round of the fraction n/d (n >= 0, d > 0)
Round(n, d) == (2 * n + d) \div (2 * d)

\* line 91
Progress(i, length) == Min(100, Round((i + BatchSize) * 100, length))

\* no runAnalysis call is in progress
NoRun == [pc |-> "idle", updatedData |-> << >>, i |-> 0, pendingIndices |-> << >>]

Reading == LET S[n \in 0..NumFiles] == IF n = 0 THEN 0 ELSE S[n - 1] + readers[n]
           IN S[NumFiles]

\* line 129-135: stats.analyzed
Analyzed(d) == Cardinality({k \in 1..Len(d) : d[k].result # NoResult})

InitDataset ==
  /\ data = << >>
  /\ fileName = Null
  /\ analyzing = FALSE
  /\ progress = 0
  /\ filter = NoFilter
  /\ readers = [f \in Files |-> 0]
  /\ run = NoRun
  /\ replaced = FALSE

\* no handleAnalyze call is in progress
NoAnalysis == [pc |-> "idle", mimeType |-> ""]

InitEditor ==
  /\ audioUrl = Null
  /\ audioBuffer = NoBuffer
  /\ trimRange = [start |-> 0, end |-> 0]
  /\ playbackState = "stopped"
  /\ playbackOffset = 0
  /\ loading = FALSE
  /\ previewSourceRef = Null
  /\ startTimeRef = 0
  /\ currentTime = 0
  /\ sources = [i \in Slots |-> Idle]
  /\ decodes = [u \in Urls |-> 0]
  /\ analysis = NoAnalysis
  /\ op = "init"
  /\ requested = 0
  /\ edited = FALSE
  /\ elapsedRuns = NoRuns

\* the editor alone: the encoder has not been called
Init ==
  /\ InitEditor
  /\ InitDataset
  /\ wavBuffer = NoWavBuffer
  /\ wavWindow = [start |-> Zero, end |-> Zero]
  /\ wavBlob = NotEncoded
  /\ wavPrev = NotEncoded

\* ------------------------------------------------------- playback engine
\* resetPlaybackState that forgets the node without stopping it
resetPlaybackState_NoStop(srcs, ref) ==
  IF ref # Null
    THEN [sources |-> [srcs EXCEPT ![ref] = ClearOnended(@)], ref |-> Null]
    ELSE [sources |-> srcs, ref |-> ref]

\* lines 144-154: result of resetPlaybackState on (sources, previewSourceRef)
resetPlaybackState(srcs, ref) ==
  IF ref # Null
    THEN [sources |-> [srcs EXCEPT ![ref] = SourceStop(ClearOnended(@))],
          ref |-> Null]
    ELSE [sources |-> srcs, ref |-> ref]

\* handleStop that keeps the offset
handleStop_KeepOffset ==
  LET sp == stopPlayback(sources, previewSourceRef) IN
  /\ sources' = sp.sources
  /\ previewSourceRef' = sp.ref
  /\ playbackOffset' = playbackOffset
  /\ playbackState' = "stopped"

\* lines 278-282
handleStop ==
  LET sp == stopPlayback(sources, previewSourceRef) IN
  /\ sources' = sp.sources
  /\ previewSourceRef' = sp.ref
  /\ playbackOffset' = 0
  /\ playbackState' = "stopped"

\* a Play button that is never disabled
PlayDisabled_Never == FALSE

\* line 447: the Play button is disabled while playing
PlayDisabled == playbackState = "playing"

\* a start offset that is never brought back to the start of the window
StartOffset_Keep(offset, segmentDuration) == offset

\* a resume that always starts at the beginning of the window
StartOffset_Zero(offset, segmentDuration) == 0

\* line 241
StartOffset(offset, segmentDuration) ==
  IF offset >= segmentDuration THEN 0 ELSE offset

\* a duration that ignores the offset the run starts at
PlayDuration_WholeSegment(segmentDuration, startOffset) == segmentDuration

\* line 242: what is left of the window after the start offset
PlayDuration(segmentDuration, startOffset) == segmentDuration - startOffset

\* the node created by lines 234-235 and started by line 251, with the
\* handler of line 260 attached.  It plays its scheduled duration, cut
\* short where the buffer ends.
NewSource(bufferOffset, playDuration) ==
  LET len == Max(0, Min(playDuration, audioBuffer.duration - bufferOffset)) IN
  [active |-> len > 0, pending |-> len <= 0, onended |-> TRUE,
   offset |-> bufferOffset, dur |-> playDuration, remaining |-> len]

FreeSlots(srcs) == {i \in Slots : srcs[i] = Idle}
FreeSlot(srcs) == CHOOSE i \in FreeSlots(srcs) : \A j \in FreeSlots(srcs) : i <= j

\* lines 224-265
handlePlay ==
  LET sp == stopPlayback(sources, previewSourceRef)
      segmentDuration == trimRange.end - trimRange.start
      startOffset == StartOffset(playbackOffset, segmentDuration)
      playDuration == PlayDuration(segmentDuration, startOffset)
  IN
  IF audioBuffer = NoBuffer
    THEN UNCHANGED <<sources, previewSourceRef, playbackOffset, playbackState, startTimeRef>>
  ELSE IF playDuration <= 0
    THEN /\ sources' = sp.sources
         /\ previewSourceRef' = sp.ref
         /\ playbackOffset' = 0
         /\ UNCHANGED <<playbackState, startTimeRef>>
  ELSE IF trimRange.start + startOffset < 0
    \* source.start rejects a negative buffer offset with a RangeError:
    \* the handler ends at line 251
    THEN /\ sources' = sp.sources
         /\ previewSourceRef' = sp.ref
         /\ UNCHANGED <<playbackOffset, playbackState, startTimeRef>>
  ELSE /\ FreeSlots(sp.sources) # {}
       /\ sources' = [sp.sources EXCEPT ![FreeSlot(sp.sources)] =
                        NewSource(trimRange.start + startOffset, playDuration)]
       /\ previewSourceRef' = FreeSlot(sp.sources)
       /\ startTimeRef' = currentTime
       /\ playbackOffset' = startOffset
       /\ playbackState' = "playing"

\* handlePause that overwrites the offset instead of accumulating
handlePause_Overwrite ==
  IF playbackState # "playing"
    THEN UNCHANGED <<sources, previewSourceRef, playbackOffset, playbackState>>
    ELSE LET sp == stopPlayback(sources, previewSourceRef)
             elapsed == currentTime - startTimeRef
         IN /\ sources' = sp.sources
            /\ previewSourceRef' = sp.ref
            /\ playbackOffset' = elapsed
            /\ playbackState' = "paused"

\* handlePause without the guard of line 268
handlePause_NoGuard ==
  LET sp == stopPlayback(sources, previewSourceRef)
      elapsed == currentTime - startTimeRef
  IN /\ sources' = sp.sources
     /\ previewSourceRef' = sp.ref
     /\ playbackOffset' = playbackOffset + elapsed
     /\ playbackState' = "paused"

\* lines 267-276
handlePause ==
  IF playbackState # "playing"
    THEN UNCHANGED <<sources, previewSourceRef, playbackOffset, playbackState>>
    ELSE LET sp == stopPlayback(sources, previewSourceRef)
             elapsed == currentTime - startTimeRef
         IN /\ sources' = sp.sources
            /\ previewSourceRef' = sp.ref
            /\ playbackOffset' = playbackOffset + elapsed
            /\ playbackState' = "paused"

\* an effect that stops playback after a trim edit and keeps the offset
TrimEffect_KeepOffset ==
  IF trimRange' # trimRange /\ playbackState # "stopped"
    THEN LET sp == stopPlayback(sources, previewSourceRef) IN
           /\ sources' = sp.sources
           /\ previewSourceRef' = sp.ref
           /\ playbackState' = "stopped"
           /\ UNCHANGED playbackOffset
    ELSE UNCHANGED <<sources, previewSourceRef, playbackOffset, playbackState>>

\* lines 137-142: the effect run by the render that follows a trim edit
TrimEffect ==
  IF trimRange' # trimRange /\ playbackState # "stopped"
    THEN handleStop
    ELSE UNCHANGED <<sources, previewSourceRef, playbackOffset, playbackState>>

\* lines 414-415 and 429-430: a range input keeps its value within its
\* min and max attributes, whatever value is asked of it
SliderValue(t, min, max) == Max(min, Min(max, t))

\* values a slider can be asked to take: below its range, in it, above it
Requests == -1 .. audioBuffer.duration + 1

\* a start slider that rejects a value it would have to pin
setStart_Reject(t) ==
  IF t > trimRange.end - MinSegment THEN trimRange ELSE [trimRange EXCEPT !.start = t]

\* line 420
setStart(t) == [trimRange EXCEPT !.start = Min(t, trimRange.end - MinSegment)]

\* line 435
setEnd(t) == [trimRange EXCEPT !.end = Max(t, trimRange.start + MinSegment)]

\* a node that falls silent at its end without an ended event
SourceTick_NoEvent(s) ==
  IF ~s.active THEN s
  ELSE IF s.remaining > 1 THEN [s EXCEPT !.remaining = @ - 1]
  ELSE Idle

\* one tick of rendering: a node that has played all it was to play falls
\* silent and queues its ended event
SourceTick(s) ==
  IF ~s.active THEN s
  ELSE IF s.remaining > 1 THEN [s EXCEPT !.remaining = @ - 1]
  ELSE SourceStop(s)

\* line 465: the Stop button is disabled while stopped
StopDisabled == playbackState = "stopped"

\* a completion handler that keeps the offset
onended_KeepOffset ==
  /\ playbackState' = "stopped"
  /\ playbackOffset' = playbackOffset

\* lines 260-264: the handler attached to the node
onended ==
  /\ playbackState' = "stopped"
  /\ playbackOffset' = 0

\* history variables, updated after the handler op' has run:
\*   requested         the value asked of a trim slider where it is kept
\*                     (RequestStart, RequestEnd), 0 after any other step
\*   edited            set by a trim edit that changes the window while not
\*                     stopped, cleared when handlePlay runs or a buffer is
\*                     loaded or dropped
\*   elapsedRuns.all   sum of the clock time of the runs ended by pause() since
\*                     playback last was stopped
\*   elapsedRuns.sinceRestart   the same sum, begun afresh by every run that
\*                     starts at offset 0
Track ==
  /\ UNCHANGED wavVars
  /\ UNCHANGED datasetVars
  /\ IF op' \in {"analyze", "submit", "analyzeDone"} THEN TRUE ELSE UNCHANGED analysis
  /\ IF op' \in {"setStart", "setEnd"} THEN TRUE ELSE requested' = 0
  /\ edited' =
       CASE op' \in {"setStart", "setEnd"} /\ trimRange' # trimRange
              /\ playbackState # "stopped" -> TRUE
         [] op' = "play" -> FALSE
         [] op' \in {"load", "reset"} -> FALSE
         [] OTHER -> edited
  /\ elapsedRuns' =
       CASE playbackState' = "stopped" -> NoRuns
         [] op' = "pause" ->
              [all |-> elapsedRuns.all + (currentTime - startTimeRef),
               sinceRestart |-> elapsedRuns.sinceRestart + (currentTime - startTimeRef)]
         [] op' = "play" /\ playbackState' = "playing" /\ playbackOffset' = 0 ->
              [elapsedRuns EXCEPT !.sinceRestart = 0]
         [] OTHER -> elapsedRuns

\* ---------------------------------------------------------------- actions
Play ==
  /\ ControlsVisible
  /\ IF PlayDisabled
       THEN UNCHANGED <<sources, previewSourceRef, playbackOffset, playbackState, startTimeRef>>
       ELSE handlePlay
  /\ op' = IF PlayDisabled THEN "playDisabled" ELSE "play"
  /\ UNCHANGED <<audioUrl, audioBuffer, trimRange, loading, currentTime,
                 decodes>>
  /\ Track

\* the Pause button (line 455)
Pause ==
  /\ ControlsVisible
  /\ handlePause
  /\ op' = IF playbackState = "playing" THEN "pause" ELSE "pauseIgnored"
  /\ UNCHANGED <<audioUrl, audioBuffer, trimRange, loading, startTimeRef, currentTime,
                 decodes>>
  /\ Track

\* the Stop button (line 464)
Stop ==
  /\ ControlsVisible
  /\ IF StopDisabled
       THEN UNCHANGED <<sources, previewSourceRef, playbackOffset, playbackState>>
       ELSE handleStop
  /\ op' = IF StopDisabled THEN "stopDisabled" ELSE "stop"
  /\ UNCHANGED <<audioUrl, audioBuffer, trimRange, loading, startTimeRef, currentTime,
                 decodes>>
  /\ Track

\* start slider, lines 412-423: the window becomes w
StartSlider(w) ==
  /\ ControlsVisible
  /\ trimRange' = w
  /\ TrimEffect
  /\ op' = "setStart"
  /\ UNCHANGED <<audioUrl, audioBuffer, loading, startTimeRef, currentTime,
                 decodes>>

\* end slider, lines 427-438: the window becomes w
EndSlider(w) ==
  /\ ControlsVisible
  /\ trimRange' = w
  /\ TrimEffect
  /\ op' = "setEnd"
  /\ UNCHANGED <<audioUrl, audioBuffer, loading, startTimeRef, currentTime,
                 decodes>>

\* the windows the start slider can change the current one to
StartWindows ==
  {setStart(SliderValue(t, 0, audioBuffer.duration)) : t \in Requests} \ {trimRange}

\* the windows the end slider can change the current one to
EndWindows ==
  {setEnd(SliderValue(t, 0, audioBuffer.duration)) : t \in Requests} \ {trimRange}

SetStart ==
  /\ \E w \in StartWindows : StartSlider(w)
  /\ requested' = 0
  /\ Track

SetEnd ==
  /\ \E w \in EndWindows : EndSlider(w)
  /\ requested' = 0
  /\ Track

\* the same two handlers, with the value asked for kept in requested
RequestStart ==
  /\ \E t \in Requests :
       /\ StartSlider(setStart(SliderValue(t, 0, audioBuffer.duration)))
       /\ requested' = t
  /\ Track

RequestEnd ==
  /\ \E t \in Requests :
       /\ EndSlider(setEnd(SliderValue(t, 0, audioBuffer.duration)))
       /\ requested' = t
  /\ Track

\* the audio clock advances by one tick.  No handler readers the clock while
\* nothing plays (line 254 readers it afresh), so only playing time is counted.
Tick ==
  /\ currentTime < MaxTime
  /\ playbackState = "playing" \/ ActiveSources # {}
  /\ currentTime' = currentTime + 1
  /\ sources' = [i \in Slots |-> SourceTick(sources[i])]
  /\ op' = "tick"
  /\ UNCHANGED <<audioUrl, audioBuffer, trimRange, playbackState, playbackOffset,
                 loading, previewSourceRef, startTimeRef, decodes>>
  /\ Track

\* the ended event of node i is dispatched to its handler, lines 260-264
Ended(i) ==
  /\ sources[i].pending
  /\ sources' = [sources EXCEPT ![i] = Idle]
  /\ onended
  /\ op' = "ended"
  /\ UNCHANGED <<audioUrl, audioBuffer, trimRange, loading, previewSourceRef,
                 startTimeRef, currentTime, decodes>>
  /\ Track

\* lines 118-135: the effect on audioUrl starts loadAudio for a new url
UrlEffect ==
  IF audioUrl' # audioUrl /\ audioUrl' # Null
    THEN /\ InFlight < MaxInFlight
         /\ decodes' = [decodes EXCEPT ![audioUrl'] = @ + 1]
    ELSE UNCHANGED decodes

\* handleFileUpload (lines 191-198) and the recorder's onstop (168-172);
\* both are offered only while no source is selected (line 350)
SelectSource(u) ==
  /\ audioUrl = Null
  /\ audioUrl' = u
  /\ UrlEffect
  /\ op' = "select"
  /\ UNCHANGED <<audioBuffer, trimRange, playbackState, playbackOffset, loading,
                 previewSourceRef, startTimeRef, currentTime, sources>>
  /\ Track

\* App.loadHistoryItem followed by the effect of lines 110-116, for a history
\* item other than the one loaded last.  The history is kept by App across
\* mounts of the editor, so an item may exist for any url.
LoadHistoryItem(u) ==
  /\ audioUrl' = u
  /\ UrlEffect
  /\ op' = "history"
  /\ UNCHANGED <<audioBuffer, trimRange, playbackState, playbackOffset, loading,
                 previewSourceRef, startTimeRef, currentTime, sources>>
  /\ Track

\* lines 126-129: a decode completes
LoadComplete(u) ==
  /\ decodes[u] > 0
  /\ decodeAudioData(u) > 0
  /\ decodes' = [decodes EXCEPT ![u] = @ - 1]
  /\ audioBuffer' = [url |-> u, duration |-> decodeAudioData(u)]
  /\ trimRange' = [start |-> 0, end |-> decodeAudioData(u)]
  /\ LET rp == resetPlaybackState(sources, previewSourceRef) IN
       /\ sources' = rp.sources
       /\ previewSourceRef' = rp.ref
  /\ playbackState' = "stopped"
  /\ playbackOffset' = 0
  /\ op' = "load"
  /\ UNCHANGED <<audioUrl, loading, startTimeRef, currentTime>>
  /\ Track

\* a catch block that drops the buffer of the session
onDecodeError_DropBuffer ==
  /\ audioBuffer' = NoBuffer
  /\ trimRange' = [start |-> 0, end |-> 0]
  /\ UNCHANGED <<playbackState, playbackOffset, previewSourceRef, sources>>

\* lines 130-132: the catch block of loadAudio logs the error
onDecodeError ==
  UNCHANGED <<audioBuffer, trimRange, playbackState, playbackOffset,
              previewSourceRef, sources>>

\* lines 124-126 reject: fetch or decodeAudioData fails for this source
LoadFail(u) ==
  /\ decodes[u] > 0
  /\ decodeAudioData(u) = 0
  /\ decodes' = [decodes EXCEPT ![u] = @ - 1]
  /\ onDecodeError
  /\ op' = "loadFail"
  /\ UNCHANGED <<audioUrl, loading, startTimeRef, currentTime>>
  /\ Track

\* lines 200-207; the button is part of the editor view (line 478)
handleReset ==
  /\ audioUrl # Null
  /\ audioUrl' = Null
  /\ audioBuffer' = NoBuffer
  /\ trimRange' = [start |-> 0, end |-> 0]
  /\ LET rp == resetPlaybackState(sources, previewSourceRef) IN
       /\ sources' = rp.sources
       /\ previewSourceRef' = rp.ref
  /\ playbackState' = "stopped"
  /\ playbackOffset' = 0
  /\ op' = "reset"
  /\ UNCHANGED <<loading, startTimeRef, currentTime, decodes>>
  /\ Track

\* a handler that encodes without stopping playback
stopBeforeEncode_Skip ==
  UNCHANGED <<sources, previewSourceRef, playbackOffset, playbackState>>

\* lines 300-302: playback is stopped before the segment is encoded
stopBeforeEncode == handleStop

\* lines 298-309: handleAnalyze up to its first await.  The segment is
\* encoded at line 304 in the same turn as handleStop; the handler then
\* waits for the FileReader of blobToBase64 (lines 286-296).
Analyze ==
  /\ audioUrl # Null
  /\ ~loading
  /\ IF audioBuffer = NoBuffer
       THEN UNCHANGED <<loading, analysis, sources, previewSourceRef,
                        playbackOffset, playbackState>>
       ELSE /\ loading' = TRUE
            /\ stopBeforeEncode
            /\ analysis' = [pc |-> "base64", mimeType |-> ""]
  /\ op' = "analyze"
  /\ UNCHANGED <<audioUrl, audioBuffer, trimRange, startTimeRef, currentTime,
                 decodes>>
  /\ Track

\* lines 309-312: the FileReader has finished and the handler resumes:
\* analyzeAudio(base64, 'audio/wav') is called
AnalyzeSubmit ==
  /\ analysis.pc = "base64"
  /\ analysis' = [pc |-> "gateway", mimeType |-> "audio/wav"]
  /\ op' = "submit"
  /\ UNCHANGED <<audioUrl, audioBuffer, trimRange, playbackState, playbackOffset,
                 loading, previewSourceRef, startTimeRef, currentTime, sources,
                 decodes>>
  /\ Track

\* lines 313-322: the gateway answers or the call fails
AnalyzeDone ==
  /\ analysis.pc = "gateway"
  /\ loading' = FALSE
  /\ analysis' = NoAnalysis
  /\ op' = "analyzeDone"
  /\ UNCHANGED <<audioUrl, audioBuffer, trimRange, playbackState, playbackOffset,
                 previewSourceRef, startTimeRef, currentTime, sources, decodes>>
  /\ Track

\* clicks: a disabled button receives none (lines 447, 456, 465)
PlayClick == ~PlayDisabled /\ Play
PauseClick == playbackState = "playing" /\ Pause
StopClick == ~StopDisabled /\ Stop

Next ==
  \/ PlayClick
  \/ PauseClick
  \/ StopClick
  \/ SetStart
  \/ SetEnd
  \/ Tick
  \/ \E i \in Slots : Ended(i)
  \/ \E u \in Urls : SelectSource(u)
  \/ \E u \in Urls : LoadHistoryItem(u)
  \/ \E u \in Urls : LoadComplete(u)
  \/ \E u \in Urls : LoadFail(u)
  \/ handleReset
  \/ Analyze
  \/ AnalyzeSubmit
  \/ AnalyzeDone

Spec == Init /\ [][Next]_vars

\* the trim selector on its own: sources are selected, decoded and dropped,
\* and the sliders are moved; nothing is played
NextTrim ==
  \/ RequestStart
  \/ RequestEnd
  \/ \E u \in Urls : SelectSource(u)
  \/ \E u \in Urls : LoadHistoryItem(u)
  \/ \E u \in Urls : LoadComplete(u)
  \/ \E u \in Urls : LoadFail(u)
  \/ handleReset

SpecTrim == Init /\ [][NextTrim]_vars

\* the playback engine with its three handlers called in every state, also
\* where the button that calls them is disabled
NextEngine ==
  \/ Play
  \/ Pause
  \/ Stop
  \/ SetStart
  \/ SetEnd
  \/ Tick
  \/ \E i \in Slots : Ended(i)
  \/ \E u \in Urls : SelectSource(u)
  \/ \E u \in Urls : LoadComplete(u)
  \/ \E u \in Urls : LoadFail(u)
  \/ handleReset

SpecEngine == Init /\ [][NextEngine]_vars

\* the engine with its scheduling: the audio clock advances by itself while
\* something plays (the rendering thread), and the event loop dispatches an
\* ended event that is queued (line 260)
SpecEngineLive ==
  /\ SpecEngine
  /\ WF_vars(Tick)
  /\ WF_vars(\E i \in Slots : Ended(i))

\* ------------------------------------------------ the encoder on its own
\* any buffer and any window (its end is never negative, line 435), the
\* editor at rest
InitWav ==
  /\ InitEditor
  /\ InitDataset
  /\ wavBuffer \in WavBuffers
  /\ wavWindow \in [start : WavTimes(wavBuffer),
                     end : {t \in WavTimes(wavBuffer) : t.n >= 0}]
  /\ wavBlob = NotEncoded
  /\ wavPrev = NotEncoded

\* line 304: const wavBlob = audioBufferToWav(audioBuffer, start, end)
WavEncode ==
  /\ wavPrev' = wavBlob
  /\ wavBlob' = audioBufferToWav(wavBuffer, wavWindow.start, wavWindow.end)
  /\ op' = "encode"
  /\ UNCHANGED <<wavBuffer, wavWindow, audioUrl, audioBuffer, trimRange, playbackState,
                 playbackOffset, loading, previewSourceRef, startTimeRef,
                 currentTime, sources, decodes, analysis, requested, edited,
                 elapsedRuns, datasetVars>>

\* between two encodings the playback engine moves on: here it is paused at
\* 0.1 s (lines 267-276) and stopped again (lines 278-282)
WavPlayback ==
  /\ playbackState' = IF playbackState = "stopped" THEN "paused" ELSE "stopped"
  /\ playbackOffset' = IF playbackState = "stopped" THEN 1 ELSE 0
  /\ op' = "playback"
  /\ UNCHANGED <<wavVars, audioUrl, audioBuffer, trimRange, loading, previewSourceRef,
                 startTimeRef, currentTime, sources, decodes, analysis, requested,
                 edited, elapsedRuns, datasetVars>>

\* lines 309-312: the caller converts the Blob it got and hands it to the
\* gateway; nothing between line 304 and line 312 looks at the Blob.  An
\* exception thrown by the encoder is caught at line 317.
WavSubmit ==
  /\ wavBlob # NotEncoded
  /\ ~wavBlob.error
  /\ analysis.pc = "idle"
  /\ analysis' = [pc |-> "gateway", mimeType |-> wavBlob.type]
  /\ op' = "submit"
  /\ UNCHANGED <<wavVars, audioUrl, audioBuffer, trimRange, playbackState,
                 playbackOffset, loading, previewSourceRef, startTimeRef,
                 currentTime, sources, decodes, requested, edited, elapsedRuns,
                 datasetVars>>

NextWav ==
  \/ WavEncode
  \/ WavPlayback
  \/ WavSubmit

SpecWav == InitWav /\ [][NextWav]_vars

\* ------------------------------------------- the dataset analyzer on its own
\* lines 31-36 and 53: a file is chosen at the upload label, which is
\* rendered while there is no data (line 158); its text is read in the
\* background
handleFileUpload(f) ==
  /\ data = << >>
  /\ Reading < MaxReads
  /\ fileName' = f
  /\ readers' = [readers EXCEPT ![f] = @ + 1]
  /\ op' = "upload"
  /\ UNCHANGED <<data, analyzing, progress, filter, run, replaced>>
  /\ UNCHANGED voiceVars

\* lines 37-52: reader.onload
FileLoaded(f) ==
  /\ readers[f] > 0
  /\ readers' = [readers EXCEPT ![f] = @ - 1]
  /\ data' = ParseFile(f)
  /\ filter' = NoFilter
  /\ progress' = 0
  /\ replaced' = (replaced \/ run # NoRun)
  /\ op' = "fileLoaded"
  /\ UNCHANGED <<fileName, analyzing, run>>
  /\ UNCHANGED voiceVars

\* lines 56-61; the button is rendered while there is data (lines 169-181)
handleClear ==
  /\ data # << >>
  /\ data' = << >>
  /\ fileName' = Null
  /\ filter' = NoFilter
  /\ progress' = 0
  /\ replaced' = (replaced \/ run # NoRun)
  /\ op' = "clear"
  /\ UNCHANGED <<analyzing, readers, run>>
  /\ UNCHANGED voiceVars

\* lines 263-299: the filter buttons, rendered once a row has a result
SetFilter(s) ==
  /\ Analyzed(data) > 0
  /\ filter # s
  /\ filter' = s
  /\ op' = "filter"
  /\ UNCHANGED <<data, fileName, analyzing, progress, readers, run, replaced>>
  /\ UNCHANGED voiceVars

\* lines 78-81: the texts of the pending rows of chunk i are handed to
\* analyzeBatch and the call is awaited
StartChunk(updatedData, i) ==
  run' = [pc |-> "gateway", updatedData |-> updatedData, i |-> i,
          pendingIndices |-> PendingIndices(updatedData, i)]

\* lines 100-102: the loop has ended.  onAnalyzeComplete hands updatedData to
\* the history kept by App.
Finish ==
  /\ run' = NoRun
  /\ analyzing' = FALSE
  /\ progress' = 100

\* lines 63-81: runAnalysis up to its first await, or to its end where no
\* row is pending.  The model calls the handler whenever no run is in
\* progress, also where every row has a result and the button of lines
\* 184-192 is not rendered.
runAnalysis ==
  /\ ~analyzing
  /\ IF data = << >>
       THEN UNCHANGED <<analyzing, progress, run, replaced>>
       ELSE /\ replaced' = FALSE
            /\ \E next \in {NextChunk(data, 0)} :
                 IF next >= Len(data)
                   THEN Finish
                   ELSE /\ StartChunk(data, next)
                        /\ analyzing' = TRUE
                        /\ progress' = 0
  /\ op' = "run"
  /\ UNCHANGED <<data, fileName, filter, readers>>
  /\ UNCHANGED voiceVars

\* lines 81-94: analyzeBatch has answered (it never rejects: every call it
\* makes has its own catch, lines 97-106); the results are stored by
\* position, the data and the progress are set, and the delay is awaited
ChunkDone(failed) ==
  /\ run.pc = "gateway"
  /\ op' = "chunk"
  /\ failed \subseteq {k \in 1..Len(run.pendingIndices) : MayFail(run.pendingIndices[k])}
  /\ LET pendingIndices == run.pendingIndices
         textsToAnalyze == [k \in 1..Len(pendingIndices) |->
                              run.updatedData[pendingIndices[k] + 1].text]
     IN \E results \in {analyzeBatch(textsToAnalyze, failed)} :
        \E updatedData \in
             {[k \in 1..Len(run.updatedData) |->
                 IF \E r \in 1..Len(pendingIndices) : pendingIndices[r] = k - 1
                   THEN [run.updatedData[k] EXCEPT !.result =
                           results[CHOOSE r \in 1..Len(pendingIndices) :
                                     pendingIndices[r] = k - 1]]
                   ELSE run.updatedData[k]]} :
          /\ run' = [run EXCEPT !.pc = "delay", !.updatedData = updatedData]
          /\ data' = updatedData
          /\ progress' = Progress(run.i, Len(updatedData))
  /\ UNCHANGED <<fileName, analyzing, filter, readers, replaced>>
  /\ UNCHANGED voiceVars

\* lines 94 and 71-81: the delay is over and the loop goes on to the next
\* chunk with a pending row, or ends
DelayDone ==
  /\ run.pc = "delay"
  /\ op' = "delay"
  /\ \E next \in {NextChunk(run.updatedData, run.i + BatchSize)} :
       IF next >= Len(run.updatedData)
         THEN Finish
         ELSE /\ StartChunk(run.updatedData, next)
              /\ UNCHANGED <<analyzing, progress>>
  /\ UNCHANGED <<data, fileName, filter, readers, replaced>>
  /\ UNCHANGED voiceVars

NextDataset ==
  \/ \E f \in Files : handleFileUpload(f)
  \/ \E f \in Files : FileLoaded(f)
  \/ handleClear
  \/ \E s \in {NoFilter, "Positive", "Negative", "Neutral"} : SetFilter(s)
  \/ runAnalysis
  \/ \E failed \in SUBSET (1..BatchSize) : ChunkDone(failed)
  \/ DelayDone

SpecDataset == Init /\ [][NextDataset]_vars

\* the dataset analyzer with its scheduling: the gateway answers every
\* analyzeBatch call (each of its calls resolves or rejects) and the timer of
\* line 94 fires
SpecDatasetLive ==
  /\ SpecDataset
  /\ WF_vars(\E failed \in SUBSET (1..BatchSize) : ChunkDone(failed))
  /\ WF_vars(DelayDone)

TypeOK ==
  /\ audioUrl \in {Null} \cup Urls
  /\ playbackState \in {"playing", "paused", "stopped"}
  /\ previewSourceRef \in {Null} \cup Slots
  /\ currentTime \in 0..MaxTime

\* ================================================================ claims
\* The history variable op names the request that produced a state:
\* "play", "pause", "stop" for a handler that ran, "playDisabled",
\* "pauseIgnored", "stopDisabled" for a request made where the button is
\* disabled or the handler returns at once.
segmentDuration == trimRange.end - trimRange.start
NoSourceActive == ActiveSources = {}
PlayRequest == op' \in {"play", "playDisabled"}
PauseRequest == op' \in {"pause", "pauseIgnored"}
StopRequest == op' \in {"stop", "stopDisabled"} \/ (op' = "analyze" /\ audioBuffer # NoBuffer)

\* C1: once a buffer of duration D is loaded, every reachable trim window
\* satisfies 0 <= start, start + 0.5 <= end and end <= D.
C1_TrimWindowValid ==
  audioBuffer # NoBuffer =>
    /\ 0 <= trimRange.start
    /\ trimRange.start + MinSegment <= trimRange.end
    /\ trimRange.end <= audioBuffer.duration

\* C2: stop() in any playback state yields Stopped with offset 0 and no
\* active source, and a stop() in that state leaves it unchanged.  stop() is
\* the Stop button and the handleStop call of handleAnalyze.
C2_StopYieldsStopped ==
  [][StopRequest =>
       /\ playbackState' = "stopped"
       /\ playbackOffset' = 0
       /\ ActiveSources' = {}
       /\ (playbackState = "stopped" /\ playbackOffset = 0 /\ NoSourceActive) =>
            (UNCHANGED <<playbackState, playbackOffset>> /\ ActiveSources' = ActiveSources)
    ]_vars

\* stop() has acted after playback had run
C2_Witness ==
  /\ op = "stop"
  /\ playbackState = "stopped"
  /\ playbackOffset = 0
  /\ elapsedRuns = NoRuns
  /\ currentTime > 0
  /\ sources = [i \in Slots |-> Idle]

\* C3: at most one playback source is active at any instant.
C3_OneActiveSource == Cardinality(ActiveSources) <= 1

\* a second run, resumed after a pause, is the only one playing
C3_Witness ==
  /\ op = "play"
  /\ playbackOffset > 0
  /\ Cardinality(ActiveSources) = 1

\* C4: a trim edit that changes the window while Playing or Paused forces
\* (Stopped, offset 0) with the source halted, and the next play() starts at
\* the beginning of the new window and schedules its full duration.
C4_EditForcesRestart ==
  [][/\ (op' \in {"setStart", "setEnd"} /\ trimRange' # trimRange
           /\ playbackState # "stopped") =>
          (playbackState' = "stopped" /\ playbackOffset' = 0 /\ ActiveSources' = {})
     /\ (op' = "play" /\ edited) =>
          /\ playbackState' = "playing"
          /\ previewSourceRef' # Null
          /\ sources'[previewSourceRef'].offset = trimRange.start
          /\ sources'[previewSourceRef'].dur = segmentDuration
    ]_vars

\* C5 as stated: pause() while Playing moves to Paused with offset = offset at
\* which the run started + clock time elapsed in the run, and over repeated
\* play/pause cycles the offset is the sum of all elapsed run times.  Stated
\* for windows that lie within the buffer and have the minimum length.
C5_OffsetIsSumOfAllRuns ==
  (playbackState = "paused" /\ C1_TrimWindowValid) =>
    playbackOffset = elapsedRuns.all

\* C5 amended: pause() while Playing moves to Paused with offset = offset at
\* which the run started + clock time elapsed in the run; over repeated
\* play/pause cycles the offset is the sum of the elapsed times of the runs
\* since the last run that started at offset 0.
C5_PauseAccumulates ==
  /\ [](playbackState = "paused" => playbackOffset = elapsedRuns.sinceRestart)
  /\ [][(PauseRequest /\ playbackState = "playing") =>
          /\ playbackState' = "paused"
          /\ playbackOffset' = playbackOffset + (currentTime - startTimeRef)
       ]_vars

\* the pause that ends the second of two runs
C5_Witness ==
  /\ op = "pause"
  /\ playbackState = "paused"
  /\ playbackOffset > currentTime - startTimeRef
  /\ currentTime - startTimeRef > 0

\* C6: play() while Paused at offset o < windowDuration moves to Playing and
\* schedules the buffer from trimStart + o for windowDuration - o.
C6_ResumeFromOffset ==
  [][(PlayRequest /\ playbackState = "paused" /\ playbackOffset < segmentDuration) =>
       /\ playbackState' = "playing"
       /\ playbackOffset' = playbackOffset
       /\ previewSourceRef' # Null
       /\ sources'[previewSourceRef'].offset = trimRange.start + playbackOffset
       /\ sources'[previewSourceRef'].dur = segmentDuration - playbackOffset
       /\ UNCHANGED trimRange
    ]_vars

\* a run resumed at an offset inside the window
C6_Witness ==
  /\ op = "play"
  /\ playbackState = "playing"
  /\ playbackOffset > 0
  /\ playbackOffset < segmentDuration

\* C7: natural completion leaves (Stopped, offset 0, no active source), the
\* state an explicit stop() produces from the same Playing state.
C7_CompletionLikeStop ==
  [][op' = "ended" =>
       LET sp == stopPlayback(sources, previewSourceRef) IN
       /\ playbackState = "playing"
       /\ playbackState' = "stopped"
       /\ playbackOffset' = 0
       /\ ActiveSources' = {i \in Slots : sp.sources[i].active}
       /\ ActiveSources' = {}
    ]_vars

C7_Witness ==
  /\ op = "ended"
  /\ playbackState = "stopped"
  /\ playbackOffset = 0

\* C8: a completion callback of a superseded playback invocation never runs:
\* a handler is attached only to the node of the current Playing run, and
\* the callback that runs is that of the current run.
C8_NoStaleCallback ==
  /\ [](\A i \in Slots : sources[i].onended =>
          (previewSourceRef = i /\ playbackState = "playing"))
  /\ [][op' = "ended" =>
          /\ playbackState = "playing"
          /\ previewSourceRef # Null
          /\ sources[previewSourceRef].pending
          /\ sources'[previewSourceRef] = Idle
       ]_vars

\* the run had ended, its callback was queued, and pause() superseded it
C8_Witness ==
  /\ op = "pause"
  /\ playbackState = "paused"
  /\ playbackOffset >= segmentDuration
  /\ \A i \in Slots : sources[i] = Idle

\* C9: play() while Playing is ignored: state, offset, run start time and the
\* active source are unchanged.
C9_PlayWhilePlayingIgnored ==
  [][(PlayRequest /\ playbackState = "playing") =>
       UNCHANGED <<playbackState, playbackOffset, startTimeRef, previewSourceRef,
                   sources, trimRange>>
    ]_vars

C9_Witness ==
  /\ op = "playDisabled"
  /\ playbackState = "playing"
  /\ ActiveSources # {}

\* C10: pause() while Stopped or Paused changes nothing: state, offset,
\* sources (none active) and trim window stay as they are.
C10_PauseNoOp ==
  [][(PauseRequest /\ playbackState # "playing") =>
       /\ UNCHANGED <<playbackState, playbackOffset, previewSourceRef, sources, trimRange>>
       /\ NoSourceActive
    ]_vars

C10_Witness ==
  /\ op = "pauseIgnored"
  /\ playbackState = "paused"
  /\ playbackOffset > 0

\* C11: setStart(t) sets start to min(t, end - 0.5) and leaves end unchanged,
\* setEnd(t) sets end to max(t, start + 0.5) and leaves start unchanged; one
\* call never changes both bounds and never rejects the value.  t is a value
\* of the slider's range.
C11_SettersPin ==
  [][/\ (op' = "setStart" /\ requested' \in 0..audioBuffer.duration) =>
          trimRange' = [start |-> Min(requested', trimRange.end - MinSegment),
                        end |-> trimRange.end]
     /\ (op' = "setEnd" /\ requested' \in 0..audioBuffer.duration) =>
          trimRange' = [start |-> trimRange.start,
                        end |-> Max(requested', trimRange.start + MinSegment)]
    ]_vars

\* setStart was asked for a value past end - 0.5 and pinned start there
C11_Witness ==
  /\ op = "setStart"
  /\ requested \in 0..audioBuffer.duration
  /\ requested > trimRange.start
  /\ trimRange.start = trimRange.end - MinSegment
  /\ C1_TrimWindowValid

\* C12: for any requested value t, including t < 0 and t > duration, setStart
\* and setEnd clamp t to [0, duration] first and never raise, so after the
\* call start and end both lie within [0, duration].
C12_SettersStayInBuffer ==
  [][op' \in {"setStart", "setEnd"} =>
       /\ 0 <= trimRange'.start /\ trimRange'.start <= audioBuffer.duration
       /\ 0 <= trimRange'.end /\ trimRange'.end <= audioBuffer.duration
    ]_vars

\* C13: when a decode completes, whatever the window and playback state
\* before, the session has the new buffer, the window (0, duration of the new
\* buffer), state Stopped with offset 0, no active source and no completion
\* callback pending.
C13_LoadResetsSession ==
  [][op' = "load" =>
       /\ \E u \in Urls :
            /\ decodes[u] > 0 /\ decodes'[u] = decodes[u] - 1
            /\ audioBuffer' = [url |-> u, duration |-> decodeAudioData(u)]
       /\ audioBuffer' # NoBuffer
       /\ trimRange' = [start |-> 0, end |-> audioBuffer'.duration]
       /\ playbackState' = "stopped"
       /\ playbackOffset' = 0
       /\ previewSourceRef' = Null
       /\ ActiveSources' = {}
       /\ \A i \in Slots : ~(sources'[i].pending /\ sources'[i].onended)
    ]_vars

\* a buffer was loaded into a session that had played another one
C13_Witness ==
  /\ op = "load"
  /\ currentTime > 0
  /\ audioBuffer.url = audioUrl
  /\ trimRange = [start |-> 0, end |-> LongDuration]
  /\ playbackState = "stopped"

\* C14: a failed decode leaves buffer, window, playback state and offset as
\* they were, and the load is not retried.
C14_LoadFailureKeepsSession ==
  [][op' = "loadFail" =>
       /\ UNCHANGED <<audioBuffer, trimRange, playbackState, playbackOffset,
                      previewSourceRef, sources>>
       /\ InFlight' = InFlight - 1
    ]_vars

\* a decode failed while the session was paused on an earlier buffer
C14_Witness ==
  /\ op = "loadFail"
  /\ audioBuffer # NoBuffer
  /\ playbackState = "paused"
  /\ playbackOffset > 0
  /\ InFlight = 0

\* ---- claims about the encoder, checked on SpecWav
Encoded == wavBlob # NotEncoded
WavFrameCount == frameCount(wavBuffer, wavWindow.start, wavWindow.end)

\* C15: for every buffer (N frames, rate R, C channels) and every window with
\* frameCount > 0 the WAV has 44 + frameCount*C*2 bytes, a data-chunk length
\* field of frameCount*C*2 and a RIFF size field of total length - 8; for the
\* full window (0, duration) frameCount = N.
C15_WavLength ==
  (Encoded /\ WavFrameCount > 0) =>
    /\ wavBlob.size = 44 + WavFrameCount * wavBuffer.numberOfChannels * 2
    /\ wavBlob.header[6] = WavFrameCount * wavBuffer.numberOfChannels * 2
    /\ wavBlob.header[1] = wavBlob.size - 8
    /\ wavWindow = [start |-> Zero, end |-> duration(wavBuffer)] =>
         WavFrameCount = wavBuffer.length

\* C16: the encoder emits exactly the frames floor(start*rate) up to but
\* excluding min(floor(end*rate), N), in increasing order with the channels
\* of a frame interleaved in channel order; no frame index outside [0, N)
\* contributes.
C16_WavFrames ==
  (Encoded /\ WavFrameCount > 0) =>
    LET first == Floor(Times(wavWindow.start, wavBuffer.sampleRate))
        last == Min(Floor(Times(wavWindow.end, wavBuffer.sampleRate)), wavBuffer.length)
        C == wavBuffer.numberOfChannels
    IN /\ Len(wavBlob.reads) = (last - first) * C
       /\ Len(wavBlob.data) = (last - first) * C
       /\ \A k \in 1..Len(wavBlob.reads) :
            /\ wavBlob.reads[k].frame = first + ((k - 1) \div C)
            /\ wavBlob.reads[k].channel = (k - 1) % C
            /\ wavBlob.reads[k].frame \in 0..(wavBuffer.length - 1)

\* C17: each encoded sample is trunc(clamp(x, -1, 1) * 32768) where the
\* clamped value is negative and trunc(clamp(x, -1, 1) * 32767) otherwise;
\* it lies in [-32768, 32767]; -1 gives -32768, 1 gives 32767, 0 gives 0.
C17_SampleScaling ==
  Encoded =>
    \A k \in 1..Len(wavBlob.data) :
      wavBlob.reads[k].frame \in 0..(wavBuffer.length - 1) =>
        LET x == getChannelData(wavBuffer, wavBlob.reads[k].channel, wavBlob.reads[k].frame)
            c == IF x.n > x.d THEN [n |-> 1, d |-> 1]
                 ELSE IF x.n < -x.d THEN [n |-> -1, d |-> 1] ELSE x
            v == wavBlob.data[k]
        IN /\ c.n < 0 => /\ v <= 0
                         /\ -v * c.d <= -c.n * 32768
                         /\ -c.n * 32768 < (-v + 1) * c.d
           /\ c.n >= 0 => /\ v >= 0
                          /\ v * c.d <= c.n * 32767
                          /\ c.n * 32767 < (v + 1) * c.d
           /\ v \in -32768..32767
           /\ x = [n |-> -1, d |-> 1] => v = -32768
           /\ x = [n |-> 1, d |-> 1] => v = 32767
           /\ x = [n |-> 0, d |-> 1] => v = 0

\* a sample above 1 was written as 32767 and a small negative one as 0
C17_Witness ==
  /\ Encoded
  /\ \E k \in 1..Len(wavBlob.data) :
       /\ wavBlob.reads[k].frame \in 0..(wavBuffer.length - 1)
       /\ getChannelData(wavBuffer, wavBlob.reads[k].channel, wavBlob.reads[k].frame)
            = [n |-> 3, d |-> 2]
       /\ wavBlob.data[k] = 32767
  /\ \E k \in 1..Len(wavBlob.data) :
       /\ wavBlob.reads[k].frame \in 0..(wavBuffer.length - 1)
       /\ getChannelData(wavBuffer, wavBlob.reads[k].channel, wavBlob.reads[k].frame)
            = [n |-> -3, d |-> 131072]
       /\ wavBlob.data[k] = 0

\* C18: when frameCount <= 0 the encoder returns an empty result (no payload,
\* no header bytes) of type audio/wav and raises no error.
C18_EmptySegment ==
  (Encoded /\ WavFrameCount <= 0) =>
    /\ ~wavBlob.error
    /\ wavBlob.type = "audio/wav"
    /\ wavBlob.size = 0
    /\ wavBlob.header = << >>
    /\ wavBlob.data = << >>

\* a well-formed buffer was encoded over a window that ends before it starts
C18_Witness ==
  /\ Encoded
  /\ WavFrameCount < 0
  /\ wavBuffer.sampleRate > 0
  /\ wavBuffer.numberOfChannels > 0
  /\ wavBlob.size = 0
  /\ wavBlob.type = "audio/wav"

\* C19: encoding a malformed buffer (zero channels or zero sample rate) yields
\* an EncodeError and no output bytes; never a partial or header-only stream.
C19_MalformedRejected ==
  (Encoded /\ (wavBuffer.numberOfChannels = 0 \/ wavBuffer.sampleRate = 0)) =>
    /\ wavBlob.error
    /\ wavBlob.size = 0
    /\ wavBlob.data = << >>

C21_StopBeforeEncode ==
  [][ /\ (op' = "analyze" /\ audioBuffer # NoBuffer) =>
           /\ playbackState' = "stopped"
           /\ playbackOffset' = 0
           /\ NoSourceActive'
           /\ previewSourceRef' = Null
           /\ analysis'.pc = "base64"
      /\ op' = "submit" => analysis'.mimeType = "audio/wav" ]_vars

\* C21 as stated: playback is stopped at offset 0 with no active source at
\* the moment the segment is submitted to the gateway
C21_StoppedAtSubmission ==
  op = "submit" =>
    playbackState = "stopped" /\ playbackOffset = 0 /\ NoSourceActive

\* Analyze was pressed after playback had run for a while: the segment is
\* encoded, the conversion is awaited and nothing plays
C21_Witness ==
  /\ op = "analyze"
  /\ analysis.pc = "base64"
  /\ playbackState = "stopped"
  /\ NoSourceActive
  /\ currentTime > startTimeRef

\* C22: while no source is selected (from a reset until the next selection)
\* the session holds no buffer, the trim window is (0, 0) and playback is
\* stopped at offset 0, also when a decode was in flight at the reset
C22_ResetHolds ==
  audioUrl = Null =>
    /\ audioBuffer = NoBuffer
    /\ trimRange = [start |-> 0, end |-> 0]
    /\ playbackState = "stopped"
    /\ playbackOffset = 0

\* C23: in every reachable state in which playback is stopped the offset is 0
C23_StoppedAtZero == playbackState = "stopped" => playbackOffset = 0

\* a trim edit stopped a paused playback that had an offset to lose
C23_Witness ==
  /\ op \in {"setStart", "setEnd"}
  /\ edited
  /\ elapsedRuns = NoRuns
  /\ currentTime > startTimeRef
  /\ playbackState = "stopped"
  /\ playbackOffset = 0

\* C24 (amended): every play() that starts a source schedules the interval
\* [trimStart + startOffset, trimStart + startOffset + playDuration]; it begins
\* at or after trimStart and ends exactly at trimEnd; and as long as the
\* source is active the run's start offset plus the elapsed clock time stays
\* within the window duration
C24_ScheduledWithinWindow ==
  [][ /\ (op' = "play" /\ previewSourceRef' # Null) =>
           LET node == sources'[previewSourceRef'] IN
             /\ playbackState' = "playing"
             /\ node.offset = trimRange.start + playbackOffset'
             /\ node.offset >= trimRange.start
             /\ node.dur > 0
             /\ node.offset + node.dur = trimRange.end
      /\ (playbackState' = "playing" /\ ~NoSourceActive') =>
           playbackOffset' + (currentTime' - startTimeRef') <= segmentDuration'
    ]_vars

\* C24 as stated: while playing, the run's start offset plus the elapsed
\* clock time never exceeds the window duration.  Stated for windows that
\* lie within the buffer.
C24_ElapsedWithinWindow ==
  (/\ playbackState = "playing"
   /\ 0 <= trimRange.start
   /\ trimRange.start < trimRange.end
   /\ trimRange.end <= audioBuffer.duration) =>
    playbackOffset + (currentTime - startTimeRef) <= segmentDuration

\* a run resumed from a pause is rendering the rest of the window
C24_Witness ==
  /\ op = "tick"
  /\ playbackState = "playing"
  /\ playbackOffset > 0
  /\ previewSourceRef # Null
  /\ sources[previewSourceRef].active
  /\ sources[previewSourceRef].offset = trimRange.start + playbackOffset
  /\ sources[previewSourceRef].offset + sources[previewSourceRef].dur = trimRange.end

\* C25: play() called with an offset >= the window duration (while stopped
\* or paused) does not fail: it starts at offset 0, sets the offset to 0 and
\* schedules the whole window from trimStart; where the window duration is
\* <= 0 it starts no source, sets the offset to 0 and leaves the state as
\* it was
C25_RestartAtEnd ==
  [][(op' = "play" /\ audioBuffer # NoBuffer /\ playbackOffset >= segmentDuration) =>
       IF segmentDuration > 0
         THEN /\ playbackState' = "playing"
              /\ playbackOffset' = 0
              /\ previewSourceRef' # Null
              /\ sources'[previewSourceRef'].offset = trimRange.start
              /\ sources'[previewSourceRef'].dur = segmentDuration
              /\ startTimeRef' = currentTime
         ELSE /\ playbackOffset' = 0
              /\ playbackState' = playbackState
              /\ previewSourceRef' = Null
              /\ NoSourceActive'
    ]_vars

\* playback was paused with the whole window played and play() has started
\* it again from the start of the window
C25_Witness ==
  /\ op = "play"
  /\ playbackState = "playing"
  /\ playbackOffset = 0
  /\ elapsedRuns.all >= segmentDuration
  /\ segmentDuration > 0
  /\ previewSourceRef # Null
  /\ sources[previewSourceRef].offset = trimRange.start

\* ---- liveness of the engine, checked on SpecEngineLive
\* the clock is observed long enough for the active source to play to its end
ClockHasRoom ==
  \A i \in Slots : sources[i].active => currentTime + sources[i].remaining <= MaxTime

\* a stop, pause, trim edit, load or reset has been issued
Interrupted == op \in {"stop", "pause", "setStart", "setEnd", "load", "reset"}

\* C26: whenever the engine is playing, it eventually is stopped at offset 0
\* by the completion handler of the source, unless a stop, pause, trim edit,
\* load or reset is issued first
C26_PlaybackCompletes ==
  (playbackState = "playing" /\ ClockHasRoom) ~>
     ((op = "ended" /\ playbackState = "stopped" /\ playbackOffset = 0) \/ Interrupted)

\* a run that was resumed from a pause has played to the end of the window
\* and its completion handler has stopped the engine
C26_Witness ==
  /\ op = "ended"
  /\ playbackState = "stopped"
  /\ playbackOffset = 0
  /\ NoSourceActive
  /\ previewSourceRef # Null
  /\ currentTime - startTimeRef < segmentDuration
  /\ currentTime > startTimeRef

\* ---- the encoder's caller, checked on SpecWav
\* C27: the gateway is never called with an empty encoded segment.  Stated
\* for a well-formed buffer and the window loadAudio sets, the whole buffer
\* (line 128).
C27_NoEmptySubmission ==
  (/\ op = "submit"
   /\ wavBuffer.sampleRate > 0
   /\ wavBuffer.numberOfChannels > 0
   /\ wavWindow = [start |-> Zero, end |-> duration(wavBuffer)]) =>
     wavBlob.size > 0

\* C28: whenever a source is selected and no decode is in flight, the buffer
\* of the session is absent or is the decoded result of the selected source;
\* and the samples Analyze exports belong to the source it reports the
\* result for
C28_BufferOfSelectedSource ==
  /\ (audioUrl # Null /\ InFlight = 0) =>
       (audioBuffer = NoBuffer \/ audioBuffer.url = audioUrl)
  /\ (op = "analyze" /\ analysis.pc = "base64") => audioBuffer.url = audioUrl

\* ---- claims about the dataset analyzer, checked on SpecDataset
\* C29: once the data has been cleared or replaced by an upload during a run
\* of the batch analysis, a chunk of that run that completes afterwards
\* leaves the displayed data as it is
C29_ClearedStaysCleared ==
  [][(op' = "chunk" /\ replaced) => data' = data]_vars

\* the rows of a chunk (their numbers from 0) the run has just sent
ChunkSent == run'.pc = "gateway" /\ run' # run

\* the result a row can carry for its text
ResultFor(row) == {analyzeText(row.text), Fallback(row.text)}

\* a step of a run of the batch analysis, as C30 has it
RunStep ==
  /\ ChunkSent =>
       LET pendingIndices == run'.pendingIndices IN
       /\ op' \in {"run", "delay"}
       /\ run.pc # "gateway"
       /\ Len(pendingIndices) \in 1..BatchSize
       /\ run'.i % BatchSize = 0
       /\ (op' = "delay" => run'.i > run.i)
       /\ \A k \in 1..Len(pendingIndices) :
            /\ pendingIndices[k] = run'.i + k - 1
            /\ pendingIndices[k] < Len(run'.updatedData)
            /\ run'.updatedData[pendingIndices[k] + 1].result = NoResult
  /\ op' = "chunk" =>
       /\ Len(run'.updatedData) = Len(run.updatedData)
       /\ \A k \in 1..Len(run.updatedData) :
            IF \E r \in 1..Len(run.pendingIndices) : run.pendingIndices[r] = k - 1
              THEN /\ run'.updatedData[k].text = run.updatedData[k].text
                   /\ run'.updatedData[k].id = run.updatedData[k].id
                   /\ run'.updatedData[k].result \in ResultFor(run.updatedData[k])
              ELSE run'.updatedData[k] = run.updatedData[k]
  /\ (op' \in {"run", "delay"} /\ run' = NoRun /\ data # << >> /\ ~replaced') =>
       /\ analyzing' = FALSE
       /\ progress' = 100
       /\ data' = data
       /\ Len(data) <= RowLimit
       /\ \A k \in 1..Len(data) : data[k].result \in ResultFor(data[k])

\* C30: a run of the batch analysis that is not interleaved with a clear or
\* an upload ends with analyzing = FALSE and progress = 100.  It sends one
\* chunk at a time, each of at most 5 consecutive rows of one slice, in
\* increasing order; no row that has a result is sent or changed; each row
\* sent gets the verdict for its own text, or the Neutral fallback; and at
\* the end every row of the data carries such a result.
C30_RunTerminates ==
  /\ [][RunStep]_vars
  /\ (analyzing /\ ~replaced) ~> ((~analyzing /\ progress = 100) \/ replaced)

\* a run over the 50 rows kept of a longer file has ended after its tenth
\* chunk; the first row carries the fallback, the last one its verdict
C30_Witness ==
  /\ op = "delay"
  /\ run = NoRun
  /\ ~analyzing
  /\ progress = 100
  /\ ~replaced
  /\ Len(data) = RowLimit
  /\ data[1].result = Fallback(data[1].text)
  /\ data[RowLimit].result = analyzeText(data[RowLimit].text)

====
